---- MODULE Spec2Model ----
(***************************************************************************)
(* RAG chatbot: src/app/app.py (ingestion upload_pdf_to_supabase, answer   *)
(* path query_documents / get_chat_response) and src/app/ui.py (the chat   *)
(* turn of the Streamlit script).                                          *)
(*                                                                         *)
(* Python strings are sequences of pieces (Seq(STRING)): an f-string is    *)
(* the concatenation of its literal pieces and its interpolated values.    *)
(* A document text is a sequence of words; the single spaces between the   *)
(* words are implicit.  Scores are integers in units of 1/10000.           *)
(***************************************************************************)
EXTENDS Integers, Sequences, FiniteSets, TLC

VARIABLES
    SUPABASE_URL,   \* app.py:12  os.getenv("SUPABASE_URL")
    SUPABASE_KEY,   \* app.py:13  os.getenv("SUPABASE_KEY")
    pdf_file,       \* the file at PDF_PATH: [exists, pages]
    module,         \* import of app.py: "init", "importing", "loaded", "import_error"
    store,          \* rows of table pdf_pages, in insertion order
    up,             \* the upload_pdf_to_supabase call of the import (locals, outcome)
    messages,       \* st.session_state.messages of each UI session
    ui_pc,          \* each session's script run: "idle" or "processing"
    ui_prompt,      \* each session's submitted chat input
    last_query,     \* each session's last query_documents call and what it did
    turns           \* number of submissions so far

vars == <<SUPABASE_URL, SUPABASE_KEY, pdf_file, module, store, up,
          messages, ui_pc, ui_prompt, last_query, turns>>

----------------------------------------------------------------------------
\* Bounds of the model.

\* Submissions over all UI sessions.
MaxTurns == 3
\* Calls of upload_pdf_to_supabase.
MaxUploads == 1

Sessions == {"s1", "s2"}

\* Python's None for an unset environment variable.
None == "<None>"

\* Chat inputs a user may type.
Questions == { <<"a">>, <<"a", "b", "c">> }

\* extract_text() of a page returns None or a string (possibly empty).
NonePage == [none |-> TRUE, text |-> <<>>]
Page(text) == [none |-> FALSE, text |-> text]

\* PDF files that may sit at PDF_PATH (a missing file has exists = FALSE).
Documents ==
    { << Page(<<"a", "b", "c">>), Page(<<>>) >>,
      << NonePage, Page(<<"a">>) >>,
      << >> }
PdfFiles ==
    {[exists |-> FALSE, pages |-> <<>>]} \cup
    {[exists |-> TRUE, pages |-> d] : d \in Documents}

\* The environments the program starts in: the URL and key both set, with
\* any of the files; or one of them unset or empty, with a readable file.
Environments ==
    LET url == "https://project.supabase.co"
        key == "service-key"
        readable == [exists |-> TRUE,
                     pages |-> << Page(<<"a", "b", "c">>), Page(<<>>) >>]
    IN [url : {url}, key : {key}, file : PdfFiles]
       \cup [url : {None, ""}, key : {key}, file : {readable}]
       \cup [url : {url}, key : {None, ""}, file : {readable}]

\* Errors the hosted services may answer with.
ServiceErrors == {"503 UNAVAILABLE"}
\* Texts the chat model may generate.
GeneratedTexts == { <<"Agentic AI is ...">> }

----------------------------------------------------------------------------
\* Helpers on sequences.

Range(s) == {s[k] : k \in 1..Len(s)}

Min(a, b) == IF a <= b THEN a ELSE b

RECURSIVE Flatten(_)
Flatten(ss) == IF ss = <<>> THEN <<>> ELSE Head(ss) \o Flatten(Tail(ss))

\* Python truthiness of an environment value: None and "" are falsy.
Falsy(v) == v = None \/ v = ""

----------------------------------------------------------------------------
\* Constants of app.py.

TABLE_NAME == "pdf_pages"
\* os.path.basename(PDF_PATH)
pdf_name == "Ebook_Agentic_AI.pdf"
\* Variant: a call left naming an earlier embedding model.
MutEmbeddingModelOld == "embedding-001"
\* The model named by the ingestion's embed_content call.
EMBEDDING_MODEL == "text-embedding-004"
\* The model named by the query's embed_content call.
QUERY_EMBEDDING_MODEL == "text-embedding-004"
CHAT_MODEL == "gemini-3-flash"
chunk_size == 1000
chunk_overlap == 150
\* match_threshold 0.3, in units of 1/10000.
match_threshold == 3000
match_count == 5
\* semantic_weight 0.7, in tenths.
semantic_weight == 7

NoDocumentsMessage ==
    <<"No relevant documents found in the database to answer your question.">>
CredentialsError == <<"Error: Supabase credentials not found in .env file.">>
FileNotFoundError == <<"Error: File not found at ", "PDF_PATH">>

----------------------------------------------------------------------------
\* RecursiveCharacterTextSplitter(chunk_size, chunk_overlap, separators).
\* The texts of the model are words separated by single spaces, every word
\* shorter than chunk_size, so the splitter splits on " " and merges the
\* words greedily (its _merge_splits), keeping a tail of at most
\* chunk_overlap characters for the next chunk.

\* Number of characters of a word of the model's texts.
WordChars(w) == IF w = "b" THEN 100 ELSE 600

SepLen(current_doc) == IF Len(current_doc) > 0 THEN 1 ELSE 0

\* The while loop that drops words from the front of current_doc after a
\* chunk was emitted.
RECURSIVE DropFront(_, _, _)
DropFront(current_doc, total, len) ==
    IF /\ current_doc # <<>>
       /\ \/ total > chunk_overlap
          \/ (total + len + SepLen(current_doc) > chunk_size /\ total > 0)
    THEN DropFront(Tail(current_doc),
                   total - (WordChars(Head(current_doc))
                            + (IF Len(current_doc) > 1 THEN 1 ELSE 0)),
                   len)
    ELSE [current_doc |-> current_doc, total |-> total]

RECURSIVE MergeSplits(_, _, _, _)
MergeSplits(splits, current_doc, total, docs) ==
    IF splits = <<>>
    THEN IF current_doc = <<>> THEN docs ELSE Append(docs, current_doc)
    ELSE LET d == Head(splits)
             len == WordChars(d)
             full == /\ total + len + SepLen(current_doc) > chunk_size
                     /\ Len(current_doc) > 0
             kept == IF full THEN DropFront(current_doc, total, len)
                     ELSE [current_doc |-> current_doc, total |-> total]
             next_doc == Append(kept.current_doc, d)
         IN MergeSplits(Tail(splits), next_doc,
                        kept.total + len + (IF Len(next_doc) > 1 THEN 1 ELSE 0),
                        IF full THEN Append(docs, current_doc) ELSE docs)

\* text_splitter.split_text(text_content): the chunks, in order; none for "".
split_text(text_content) == MergeSplits(text_content, <<>>, 0, <<>>)

----------------------------------------------------------------------------
\* google_client.models.embed_content: the vector is a function of the model
\* and of the text embedded.
Embedding(model, contents) == [model |-> model, text |-> contents]

\* Variant: the row numbered with the 0-based index of its page.
MutRowZeroBasedPage(i, chunk, embedding_vector) ==
    [pdf_name |-> pdf_name, page_number |-> i, content |-> chunk,
     embedding |-> embedding_vector]
\* The row appended to rows_to_insert for a chunk of the page at index i.
Row(i, chunk, embedding_vector) ==
    [pdf_name |-> pdf_name, page_number |-> i + 1, content |-> chunk,
     embedding |-> embedding_vector]

----------------------------------------------------------------------------
\* The remote procedure match_documents_hybrid of the store.

\* Vector similarity in thousandths: the overlap of the two texts' words;
\* vectors of different models are not comparable (similarity 0).
VectorSimilarity(v, w) ==
    LET a == Range(v.text)
        b == Range(w.text)
        u == Cardinality(a \cup b)
    IN IF v.model # w.model \/ u = 0 THEN 0
       ELSE (1000 * Cardinality(a \cap b) + u \div 2) \div u

\* Lexical score in thousandths: all words of the query occur in the row.
LexicalScore(query_text, content) ==
    IF query_text # <<>> /\ Range(query_text) \subseteq Range(content)
    THEN 1000 ELSE 0

\* combined_score in units of 1/10000.
CombinedScore(query_embedding, query_text, row) ==
    semantic_weight * VectorSimilarity(query_embedding, row.embedding)
    + (10 - semantic_weight) * LexicalScore(query_text, row.content)

Match(query_embedding, query_text, row) ==
    [pdf_name |-> row.pdf_name, page_number |-> row.page_number,
     content |-> row.content,
     combined_score |-> CombinedScore(query_embedding, query_text, row)]

\* Stable insertion into a sequence sorted by descending combined_score.
RECURSIVE InsertByScore(_, _)
InsertByScore(sorted, m) ==
    IF sorted = <<>> THEN <<m>>
    ELSE IF Head(sorted).combined_score >= m.combined_score
         THEN <<Head(sorted)>> \o InsertByScore(Tail(sorted), m)
         ELSE <<m>> \o sorted

RECURSIVE SortByScore(_)
SortByScore(ms) ==
    IF ms = <<>> THEN <<>>
    ELSE InsertByScore(SortByScore(SubSeq(ms, 1, Len(ms) - 1)), ms[Len(ms)])

HybridQuery(rows, query_embedding, query_text) ==
    LET all == [k \in 1..Len(rows) |-> Match(query_embedding, query_text, rows[k])]
        kept == SelectSeq(all, LAMBDA m : m.combined_score >= match_threshold)
        ranked == SortByScore(kept)
    IN SubSeq(ranked, 1, Min(match_count, Len(ranked)))

----------------------------------------------------------------------------
\* The answer path of app.py.

\* What a call returns or raises: value is the returned string, or the text
\* of the exception raised.
Return(value) == [raised |-> FALSE, value |-> value]
Raise(err) == [raised |-> TRUE, value |-> <<err>>]

\* Answers of the hosted services to one call.
Ok == [ok |-> TRUE, err |-> "", text |-> <<>>]
Failed(err) == [ok |-> FALSE, err |-> err, text |-> <<>>]
Generated(text) == [ok |-> TRUE, err |-> "", text |-> text]
ChatOutcomes == {Generated(t) : t \in GeneratedTexts}
                \cup {Failed(e) : e \in ServiceErrors}

\* A call to a hosted service: its name, the model or vector model it names,
\* and the text it sends.
Call(api, model, contents) == [api |-> api, model |-> model, contents |-> contents]

Digit(d) == ToString(d % 10)

\* f"{score:.3f}" of a score given in units of 1/10000: rounded to the
\* nearest thousandth (a tie, which only an exactly representable value
\* such as 0.0625 produces, goes to the even digit).
Format3(score) ==
    LET q == score \div 10
        r == score % 10
        m == IF r > 5 \/ (r = 5 /\ q % 2 = 1) THEN q + 1 ELSE q
    IN <<ToString(m \div 1000), ".", Digit(m \div 100), Digit(m \div 10), Digit(m)>>

\* The element appended to context_parts for the i-th match (i from 1).
ContextPart(i, match) ==
    <<"[Source ", ToString(i), " - ", match.pdf_name, " - ",
      "Page ", ToString(match.page_number), " - Score: ">>
    \o Format3(match.combined_score)
    \o <<"]\n">> \o match.content \o <<"\n">>

\* Variant: enumerate(rpc_response.data), numbering from 0.
MutContextPartsFromZero(data) ==
    [i \in 1..Len(data) |-> ContextPart(i - 1, data[i])]
\* enumerate(rpc_response.data, 1)
ContextParts(data) == [i \in 1..Len(data) |-> ContextPart(i, data[i])]

\* "\n---\n".join(context_parts)
RECURSIVE Join(_, _)
Join(sep, parts) ==
    IF parts = <<>> THEN <<>>
    ELSE IF Len(parts) = 1 THEN parts[1]
    ELSE parts[1] \o <<sep>> \o Join(sep, Tail(parts))

PromptHead ==
    "\n    You are a helpful AI assistant. Answer the question based ONLY on the following context:\n    \n    CONTEXT:\n    "
PromptQuestion == "\n    \n    QUESTION:\n    "
PromptTail == "\n    "

full_prompt(query_text, data) ==
    <<PromptHead>> \o Join("\n---\n", ContextParts(data))
    \o <<PromptQuestion>> \o query_text \o <<PromptTail>>

\* Variant: get_chat_response without its except clause.
MutChatResponseReraises(prompt_text, chat_out) ==
    IF chat_out.ok THEN Return(chat_out.text) ELSE Raise(chat_out.err)
\* get_chat_response(prompt_text), given the answer of generate_content.
get_chat_response(prompt_text, chat_out) ==
    IF chat_out.ok THEN Return(chat_out.text)
    ELSE Return(<<"Error: ", chat_out.err>>)

\* Variant: the empty-result check left out.
MutNeverEmpty(data) == FALSE
\* `not rpc_response.data`
NoData(data) == data = <<>>

\* query_documents(query_text), given the store's rows and the answers of the
\* three services it calls; calls lists the calls made, in order, and data
\* is rpc_response.data (when the store answered).
query_documents(query_text, rows, embed_out, rpc_out, chat_out) ==
    LET embed_call == Call("embed_content", QUERY_EMBEDDING_MODEL, query_text)
        query_vector == Embedding(QUERY_EMBEDDING_MODEL, query_text)
        rpc_call == Call("match_documents_hybrid", query_vector.model, query_text)
        data == HybridQuery(rows, query_vector, query_text)
        prompt == full_prompt(query_text, data)
        chat_call == Call("generate_content", CHAT_MODEL, prompt)
    IN IF ~embed_out.ok
       THEN [result |-> Raise(embed_out.err), calls |-> <<embed_call>>,
             data |-> <<>>]
       ELSE IF ~rpc_out.ok
       THEN [result |-> Raise(rpc_out.err), calls |-> <<embed_call, rpc_call>>,
             data |-> <<>>]
       ELSE IF NoData(data)
       THEN [result |-> Return(NoDocumentsMessage),
             calls |-> <<embed_call, rpc_call>>, data |-> data]
       ELSE [result |-> get_chat_response(prompt, chat_out),
             calls |-> <<embed_call, rpc_call, chat_call>>, data |-> data]

----------------------------------------------------------------------------
\* Ingestion: upload_pdf_to_supabase().

\* Variant: only the URL is checked.
MutPrecheckUrlOnly(url, key, exists) ==
    IF Falsy(url) THEN "credentials"
    ELSE IF ~exists THEN "file" ELSE "proceed"
\* The two early returns before the try block.
Precheck(url, key, exists) ==
    IF Falsy(url) \/ Falsy(key) THEN "credentials"
    ELSE IF ~exists THEN "file" ELSE "proceed"

\* `except Exception as e: print(...)`: the call ends, returning None.
OnException(u, stage, err) ==
    [u EXCEPT !.pc = "returned", !.result = Return(<<None>>),
              !.printed = <<"An error occurred: ", err>>, !.failed = stage]

\* `page.extract_text() or ""`
TextContent(page) == IF page.none THEN <<>> ELSE page.text

\* Variant: the insert placed inside the page loop.
MutInsertAfterFirstPage(i, total_pages) == i >= Min(1, total_pages)
\* The loop over reader.pages is over once every page was taken.
PagesDone(i, total_pages) == i >= total_pages

UpIdle ==
    [pc |-> "idle", i |-> 0, chunks |-> <<>>, rows_to_insert |-> <<>>,
     result |-> Return(<<None>>), printed |-> <<>>, failed |-> "",
     runs |-> 0, rows_before |-> <<>>,
     n_read |-> 0, n_embed |-> 0, n_insert |-> 0, models |-> {}]

\* The call starts; lines 40-45.
UploadStart ==
    /\ module = "importing"
    /\ up.pc \in {"idle", "returned"}
    /\ up.runs < MaxUploads
    /\ LET check == Precheck(SUPABASE_URL, SUPABASE_KEY, pdf_file.exists)
           u == [UpIdle EXCEPT !.runs = up.runs + 1, !.rows_before = store,
                               !.models = up.models]
       IN up' = CASE check = "credentials" ->
                       [u EXCEPT !.pc = "returned", !.result = Return(CredentialsError),
                                 !.failed = "credentials"]
                  [] check = "file" ->
                       [u EXCEPT !.pc = "returned", !.result = Return(FileNotFoundError),
                                 !.failed = "file"]
                  [] OTHER -> [u EXCEPT !.pc = "read"]
    /\ UNCHANGED <<SUPABASE_URL, SUPABASE_KEY, pdf_file, module, store,
                   messages, ui_pc, ui_prompt, last_query, turns>>

\* PdfReader(PDF_PATH); lines 49-63.
UploadReadPdf ==
    /\ up.pc = "read"
    /\ up' = [up EXCEPT !.pc = "page", !.n_read = @ + 1]
    /\ UNCHANGED <<SUPABASE_URL, SUPABASE_KEY, pdf_file, module, store,
                   messages, ui_pc, ui_prompt, last_query, turns>>

UploadReadPdfFails ==
    /\ up.pc = "read"
    /\ \E e \in {"PdfReadError"} :
          up' = OnException([up EXCEPT !.n_read = @ + 1], "read", e)
    /\ UNCHANGED <<SUPABASE_URL, SUPABASE_KEY, pdf_file, module, store,
                   messages, ui_pc, ui_prompt, last_query, turns>>

\* Next iteration of the page loop: extract the text and split it; lines 65-70.
UploadPage ==
    /\ up.pc = "page"
    /\ ~PagesDone(up.i, Len(pdf_file.pages))
    /\ up' = [up EXCEPT !.pc = "chunk",
                        !.chunks = split_text(TextContent(pdf_file.pages[up.i + 1]))]
    /\ UNCHANGED <<SUPABASE_URL, SUPABASE_KEY, pdf_file, module, store,
                   messages, ui_pc, ui_prompt, last_query, turns>>

UploadExtractFails ==
    /\ up.pc = "page"
    /\ ~PagesDone(up.i, Len(pdf_file.pages))
    /\ \E e \in {"PdfStreamError"} : up' = OnException(up, "extract", e)
    /\ UNCHANGED <<SUPABASE_URL, SUPABASE_KEY, pdf_file, module, store,
                   messages, ui_pc, ui_prompt, last_query, turns>>

\* Next iteration of the chunk loop: embed the chunk, queue its row; lines 72-89.
UploadEmbedChunk ==
    /\ up.pc = "chunk"
    /\ up.chunks # <<>>
    /\ LET chunk == Head(up.chunks)
           embedding_vector == Embedding(EMBEDDING_MODEL, chunk)
       IN up' = [up EXCEPT !.chunks = Tail(@), !.n_embed = @ + 1,
                           !.models = @ \cup {EMBEDDING_MODEL},
                           !.rows_to_insert =
                               Append(@, Row(up.i, chunk, embedding_vector))]
    /\ UNCHANGED <<SUPABASE_URL, SUPABASE_KEY, pdf_file, module, store,
                   messages, ui_pc, ui_prompt, last_query, turns>>

UploadEmbedFails ==
    /\ up.pc = "chunk"
    /\ up.chunks # <<>>
    /\ \E e \in ServiceErrors :
          up' = OnException([up EXCEPT !.n_embed = @ + 1,
                                       !.models = @ \cup {EMBEDDING_MODEL}],
                            "embed", e)
    /\ UNCHANGED <<SUPABASE_URL, SUPABASE_KEY, pdf_file, module, store,
                   messages, ui_pc, ui_prompt, last_query, turns>>

\* The chunk loop of the page is over: on to the next page.
UploadPageDone ==
    /\ up.pc = "chunk"
    /\ up.chunks = <<>>
    /\ up' = [up EXCEPT !.pc = "page", !.i = @ + 1]
    /\ UNCHANGED <<SUPABASE_URL, SUPABASE_KEY, pdf_file, module, store,
                   messages, ui_pc, ui_prompt, last_query, turns>>

\* supabase.table(TABLE_NAME).insert(rows_to_insert).execute(); lines 92-99.
UploadInsert ==
    /\ up.pc = "page"
    /\ PagesDone(up.i, Len(pdf_file.pages))
    /\ store' = store \o up.rows_to_insert
    /\ up' = [up EXCEPT !.pc = "returned", !.n_insert = @ + 1]
    /\ UNCHANGED <<SUPABASE_URL, SUPABASE_KEY, pdf_file, module,
                   messages, ui_pc, ui_prompt, last_query, turns>>

\* The insert fails: the store is left with the rows it had already written.
UploadInsertFails ==
    /\ up.pc = "page"
    /\ PagesDone(up.i, Len(pdf_file.pages))
    /\ \E e \in ServiceErrors, written \in 0..Len(up.rows_to_insert) :
          /\ written < Len(up.rows_to_insert) \/ written = 0
          /\ store' = store \o SubSeq(up.rows_to_insert, 1, written)
          /\ up' = OnException([up EXCEPT !.n_insert = @ + 1], "insert", e)
    /\ UNCHANGED <<SUPABASE_URL, SUPABASE_KEY, pdf_file, module,
                   messages, ui_pc, ui_prompt, last_query, turns>>

----------------------------------------------------------------------------
\* Import of app.py.  Lines 9-23 read the environment and construct the
\* clients: create_client and genai.Client are library constructors, and with
\* a missing URL or key create_client may reject its arguments, which fails
\* the import.  Line 158 is where upload_pdf_to_supabase() is called when
\* ingestion is wanted: during the import, before any query is served.

ImportClients ==
    /\ module = "init"
    /\ module' = "importing"
    /\ UNCHANGED <<SUPABASE_URL, SUPABASE_KEY, pdf_file, store, up,
                   messages, ui_pc, ui_prompt, last_query, turns>>

ImportFails ==
    /\ module = "init"
    /\ Falsy(SUPABASE_URL) \/ Falsy(SUPABASE_KEY)
    /\ module' = "import_error"
    /\ UNCHANGED <<SUPABASE_URL, SUPABASE_KEY, pdf_file, store, up,
                   messages, ui_pc, ui_prompt, last_query, turns>>

\* The import is over (with or without ingestion): queries are served.
ImportLoads ==
    /\ module = "importing"
    /\ up.pc \in {"idle", "returned"}
    /\ ~up.result.raised
    /\ module' = "loaded"
    /\ up' = [UpIdle EXCEPT !.models = up.models]
    /\ UNCHANGED <<SUPABASE_URL, SUPABASE_KEY, pdf_file, store,
                   messages, ui_pc, ui_prompt, last_query, turns>>

----------------------------------------------------------------------------
\* The chat turn of ui.py.

Message(role, content) == [role |-> role, content |-> content]

\* Variant: the whole history passed as the query.
MutForwardHistory(session_messages, prompt) ==
    Flatten([k \in 1..Len(session_messages) |-> session_messages[k].content])
\* The argument of query_documents at ui.py:18.
QueryInput(session_messages, prompt) == prompt

NoQuery ==
    [called |-> FALSE, query_text |-> <<>>, history |-> <<>>, rows |-> <<>>,
     fault |-> "", chat_out |-> Ok, result |-> Return(<<>>), calls |-> <<>>,
     data |-> <<>>]

\* Answers of the three services to the calls of one query_documents call.
\* A call made after a failed one is never made, so its answer is not drawn;
\* without a URL and key no request to the store succeeds.
ServiceAnswers ==
    LET g1 == CHOOSE t \in GeneratedTexts : TRUE
        any == [embed : {Ok}, rpc : {Ok}, chat : ChatOutcomes]
               \cup [embed : {Failed(e) : e \in ServiceErrors}, rpc : {Ok},
                     chat : {Generated(g1)}]
               \cup [embed : {Ok}, rpc : {Failed(e) : e \in ServiceErrors},
                     chat : {Generated(g1)}]
    IN IF Falsy(SUPABASE_URL) \/ Falsy(SUPABASE_KEY)
       THEN {a \in any : ~a.embed.ok \/ ~a.rpc.ok}
       ELSE any

\* The record of a finished query_documents call q of session s: the input,
\* the history and the store's rows it ran against, the service that failed
\* (if one did), the chat model's answer (if it was asked), what the call
\* returned or raised, the calls it made and the matches the store returned.
QueryRecord(s, q, answers) ==
    [called |-> TRUE, query_text |-> ui_prompt[s],
     history |-> SubSeq(messages[s], 1, Len(messages[s]) - 1),
     rows |-> store,
     fault |-> IF ~answers.embed.ok THEN "embed"
               ELSE IF ~answers.rpc.ok THEN "rpc"
               ELSE IF Len(q.calls) = 3 /\ ~answers.chat.ok THEN "chat"
               ELSE "",
     chat_out |-> IF Len(q.calls) = 3 THEN answers.chat ELSE Ok,
     result |-> q.result, calls |-> q.calls, data |-> q.data]

\* ui.py:12-14: the user submits a chat input.
Submit(s, prompt) ==
    /\ module = "loaded"
    /\ ui_pc[s] = "idle"
    /\ turns < MaxTurns
    /\ messages' = [messages EXCEPT ![s] = Append(@, Message("user", prompt))]
    /\ ui_prompt' = [ui_prompt EXCEPT ![s] = prompt]
    /\ ui_pc' = [ui_pc EXCEPT ![s] = "processing"]
    /\ turns' = turns + 1
    /\ UNCHANGED <<SUPABASE_URL, SUPABASE_KEY, pdf_file, module, store, up,
                   last_query>>

\* ui.py:16-21: query_documents returns; the answer is appended.
Answer(s) ==
    /\ ui_pc[s] = "processing"
    /\ \E answers \in ServiceAnswers :
          LET q == query_documents(QueryInput(messages[s], ui_prompt[s]), store,
                                   answers.embed, answers.rpc, answers.chat)
          IN /\ ~q.result.raised
             /\ messages' = [messages EXCEPT
                                ![s] = Append(@, Message("assistant", q.result.value))]
             /\ last_query' = [last_query EXCEPT
                                ![s] = QueryRecord(s, q, answers)]
    /\ ui_pc' = [ui_pc EXCEPT ![s] = "idle"]
    /\ UNCHANGED <<SUPABASE_URL, SUPABASE_KEY, pdf_file, module, store, up,
                   ui_prompt, turns>>

\* ui.py:18: query_documents raises; the script run ends with the exception
\* shown, nothing is appended, and the session waits for the next input.
AnswerRaises(s) ==
    /\ ui_pc[s] = "processing"
    /\ \E answers \in ServiceAnswers :
          LET q == query_documents(QueryInput(messages[s], ui_prompt[s]), store,
                                   answers.embed, answers.rpc, answers.chat)
          IN /\ q.result.raised
             /\ last_query' = [last_query EXCEPT
                                ![s] = QueryRecord(s, q, answers)]
    /\ ui_pc' = [ui_pc EXCEPT ![s] = "idle"]
    /\ UNCHANGED <<SUPABASE_URL, SUPABASE_KEY, pdf_file, module, store, up,
                   messages, ui_prompt, turns>>

----------------------------------------------------------------------------

Init ==
    /\ \E env \in Environments :
          /\ SUPABASE_URL = env.url
          /\ SUPABASE_KEY = env.key
          /\ pdf_file = env.file
    /\ module = "init"
    /\ store = <<>>
    /\ up = UpIdle
    /\ messages = [s \in Sessions |-> <<>>]
    /\ ui_pc = [s \in Sessions |-> "idle"]
    /\ ui_prompt = [s \in Sessions |-> <<>>]
    /\ last_query = [s \in Sessions |-> NoQuery]
    /\ turns = 0

Next ==
    \/ ImportClients
    \/ ImportFails
    \/ ImportLoads
    \/ UploadStart
    \/ UploadReadPdf
    \/ UploadReadPdfFails
    \/ UploadPage
    \/ UploadExtractFails
    \/ UploadEmbedChunk
    \/ UploadEmbedFails
    \/ UploadPageDone
    \/ UploadInsert
    \/ UploadInsertFails
    \/ \E s \in Sessions, prompt \in Questions : Submit(s, prompt)
    \/ \E s \in Sessions : Answer(s)
    \/ \E s \in Sessions : AnswerRaises(s)

Spec == Init /\ [][Next]_vars

----------------------------------------------------------------------------
\* The claims.

\* The query_documents calls on record.
Called == {s \in Sessions : last_query[s].called}
\* Whether the call on record reached the store and got an answer from it.
StoreAnswered(r) == r.called /\ r.fault \notin {"embed", "rpc"}
\* Whether the call on record called generate_content.
ChatCalled(r) == \E k \in 1..Len(r.calls) : r.calls[k].api = "generate_content"

\* C1: whenever the store's hybrid query returns an empty result,
\* query_documents returns the fixed "No relevant documents" message and
\* generate_content is not called during that query.
C1_EmptyResultSkipsChat ==
    \A s \in Sessions :
        LET r == last_query[s]
        IN (StoreAnswered(r) /\ r.data = <<>>) =>
              /\ r.result = Return(NoDocumentsMessage)
              /\ ~ChatCalled(r)

C1_Witness ==
    \E s \in Sessions :
        /\ StoreAnswered(last_query[s])
        /\ last_query[s].data = <<>>
        /\ messages[s] # <<>>
        /\ messages[s][Len(messages[s])] = Message("assistant", NoDocumentsMessage)

\* C2 (as claimed): a query_documents call whose query-embedding call fails
\* returns a string beginning with "Error: " and does not raise.
C2_EmbeddingFailureReturnsError ==
    \A s \in Sessions :
        LET r == last_query[s]
        IN (r.called /\ r.fault = "embed") =>
              /\ ~r.result.raised
              /\ Head(r.result.value) = "Error: "

\* C3: when generate_content fails, get_chat_response (and so
\* query_documents) returns "Error: " followed by the error text and does not
\* raise; when it succeeds, the generated text is returned unchanged.
C3_ChatFailureReturnsError ==
    \A s \in Sessions :
        LET r == last_query[s]
        IN ChatCalled(r) =>
              /\ ~r.result.raised
              /\ ~r.chat_out.ok => r.result.value = <<"Error: ", r.chat_out.err>>
              /\ r.chat_out.ok => r.result.value = r.chat_out.text

C3_Witness ==
    \E s \in Sessions :
        /\ ChatCalled(last_query[s])
        /\ ~last_query[s].chat_out.ok
        /\ messages[s][Len(messages[s])].role = "assistant"
        /\ Head(messages[s][Len(messages[s])].content) = "Error: "

\* C4 (as claimed): after any sequence of completed turns (the session is
\* idle again) the history has even length and alternates user, assistant.
C4_HistoryAlternates ==
    \A s \in Sessions :
        ui_pc[s] = "idle" =>
            /\ Len(messages[s]) % 2 = 0
            /\ \A k \in 1..Len(messages[s]) :
                  messages[s][k].role = IF k % 2 = 1 THEN "user" ELSE "assistant"

Labels(prompt) == {p \in 1..Len(prompt) : prompt[p] = "[Source "}
Delimiters(prompt) == {p \in 1..Len(prompt) : prompt[p] = "\n---\n"}
NthLabel(prompt, i) ==
    CHOOSE p \in Labels(prompt) :
        Cardinality({m \in Labels(prompt) : m < p}) = i - 1
IsDigit(t) == \E d \in 0..9 : t = ToString(d)
DigitValue(t) == CHOOSE d \in 0..9 : t = ToString(d)
Distance(a, b) == IF a >= b THEN a - b ELSE b - a

\* The block of the i-th match, read at position p of the prompt.
BlockAt(prompt, p, i, match, last) ==
    LET n == Len(match.content)
    IN /\ p + 14 + n + 1 <= Len(prompt)
       /\ prompt[p + 1] = ToString(i)
       /\ prompt[p + 3] = match.pdf_name
       /\ prompt[p + 5] = "Page "
       /\ prompt[p + 6] = ToString(match.page_number)
       /\ prompt[p + 7] = " - Score: "
       \* the score with exactly 3 decimals, the nearest to combined_score
       /\ IsDigit(prompt[p + 8])
       /\ prompt[p + 9] = "."
       /\ \A k \in 10..12 : IsDigit(prompt[p + k])
       /\ prompt[p + 13] = "]\n"
       /\ Distance(10 * (1000 * DigitValue(prompt[p + 8])
                         + 100 * DigitValue(prompt[p + 10])
                         + 10 * DigitValue(prompt[p + 11])
                         + DigitValue(prompt[p + 12])),
                   match.combined_score) <= 5
       \* then the chunk content
       /\ SubSeq(prompt, p + 14, p + 13 + n) = match.content
       /\ prompt[p + 14 + n] = "\n"
       \* then the delimiter, or after the last block the question
       /\ prompt[p + 14 + n + 1] = IF last THEN PromptQuestion ELSE "\n---\n"

\* C6: the prompt sent to the chat model holds one labelled block per match,
\* in the store's order and numbered from 1, each with the document name,
\* "Page <page_number>", the score with 3 decimals and then the content; the
\* blocks are separated by "---"; the instruction precedes all blocks and the
\* literal question follows the last block.
C6_PromptLayout ==
    \A s \in Sessions :
        LET r == last_query[s]
            prompt == r.calls[3].contents
            n == Len(r.data)
            nq == Len(r.query_text)
        IN ChatCalled(r) =>
              /\ n > 0
              /\ prompt[1] = PromptHead
              /\ Cardinality(Labels(prompt)) = n
              /\ Cardinality(Delimiters(prompt)) = n - 1
              /\ \A i \in 1..n :
                    BlockAt(prompt, NthLabel(prompt, i), i, r.data[i], i = n)
              /\ Len(prompt) > nq + 2
              /\ prompt[Len(prompt) - nq - 1] = PromptQuestion
              /\ SubSeq(prompt, Len(prompt) - nq, Len(prompt) - 1) = r.query_text
              /\ prompt[Len(prompt)] = PromptTail

\* Two matches, with scores the format rounds up.
C6_Witness ==
    \E s \in Sessions :
        /\ ChatCalled(last_query[s])
        /\ Len(last_query[s].data) >= 2
        /\ \E i \in 1..Len(last_query[s].data) :
              last_query[s].data[i].combined_score % 10 > 5

\* C7: two sessions that submit the same question against the same store
\* contents make the same calls with the same texts, whatever their
\* histories: up to the point where one of the two calls ended, the calls
\* (the embedding input, the store query, the prompt) are identical.
C7_AnswerIgnoresHistory ==
    \A s, t \in Called :
        LET a == last_query[s]
            b == last_query[t]
        IN (a.query_text = b.query_text /\ a.rows = b.rows) =>
              \A k \in 1..Min(Len(a.calls), Len(b.calls)) : a.calls[k] = b.calls[k]

C7_Witness ==
    \E s, t \in Called :
        /\ s # t
        /\ last_query[s].query_text = last_query[t].query_text
        /\ last_query[s].rows = last_query[t].rows
        /\ last_query[s].history # last_query[t].history
        /\ ChatCalled(last_query[s]) /\ ChatCalled(last_query[t])

\* The chunks of the page at 1-based position p of the PDF.
PageChunks(p) == split_text(TextContent(pdf_file.pages[p]))
\* The rows queued for the page at 1-based position p, in queue order.
RowsOfPage(p) == SelectSeq(up.rows_to_insert, LAMBDA row : row.page_number = p)
\* A page without extractable characters: extract_text gave None or "".
NoText(p) == pdf_file.pages[p].none \/ pdf_file.pages[p].text = <<>>

\* C8: while no step of the ingestion has failed, the queued rows are exactly
\* one row per chunk of the pages taken so far: the page at 0-based position
\* i gives page_number i + 1, the rows are in page order then chunk order,
\* each holds the chunk and the vector returned for it, one embedding call
\* was made per row, and a page without text gives no chunk, no call and no
\* row while the pages after it are still processed.
C8_OneRowPerChunk ==
    (up.runs > 0 /\ up.failed = "" /\ up.pc # "read") =>
        LET rows == up.rows_to_insert
            pages == pdf_file.pages
        IN /\ up.n_embed = Len(rows)
           /\ \A k \in 1..Len(rows) : rows[k].page_number \in 1..Len(pages)
           /\ \A k \in 1..(Len(rows) - 1) :
                 rows[k].page_number <= rows[k + 1].page_number
           /\ \A p \in 1..Len(pages) :
                 LET queued == RowsOfPage(p)
                     chunks == PageChunks(p)
                 IN /\ NoText(p) => queued = <<>>
                    /\ p <= up.i => Len(queued) = Len(chunks)
                    /\ (p = up.i + 1 /\ up.pc = "chunk") =>
                          Len(queued) + Len(up.chunks) = Len(chunks)
                    /\ p > up.i + 1 => queued = <<>>
                    /\ \A j \in 1..Len(queued) :
                          /\ j <= Len(chunks)
                          /\ queued[j].pdf_name = pdf_name
                          /\ queued[j].content = chunks[j]
                          /\ queued[j].embedding = Embedding(EMBEDDING_MODEL, chunks[j])
           /\ up.n_insert = 1 => up.i = Len(pages)

\* A run that finished over a PDF whose first page gave two chunks and whose
\* second page has no text.
C8_Witness ==
    /\ up.pc = "returned" /\ up.failed = "" /\ up.n_insert = 1
    /\ \E p \in 1..Len(pdf_file.pages) : NoText(p)
    /\ \E p \in 1..Len(pdf_file.pages) : Len(RowsOfPage(p)) = 2

\* C9: every embedding call, of the ingestion and of the queries, names the
\* same model, and no stored row compared by the store's query was embedded
\* with a model other than the one that embedded the query vector.
C9_OneEmbeddingModel ==
    LET used == up.models
                \cup {last_query[s].calls[1].model : s \in Called}
                \cup {store[k].embedding.model : k \in 1..Len(store)}
    IN /\ Cardinality(used) <= 1
       /\ \A s \in Called :
             LET r == last_query[s]
             IN Len(r.calls) >= 2 =>
                   \A k \in 1..Len(r.rows) :
                       r.rows[k].embedding.model = r.calls[2].model

C9_Witness ==
    \E s \in Called :
        /\ Len(last_query[s].calls) >= 2
        /\ last_query[s].rows # <<>>
        /\ up.models # {}

\* C10: an ingestion run issues at most one insert, and only once every page
\* was taken and every chunk embedded; a run that fails while reading the
\* PDF, extracting text or embedding ends with the error printed, does not
\* raise, issues no insert and leaves the store's rows as they were.
C10_InsertLastOrNotAtAll ==
    /\ up.n_insert <= 1
    /\ ~up.result.raised
    /\ up.n_insert = 1 =>
          /\ up.i = Len(pdf_file.pages)
          /\ up.chunks = <<>>
          /\ up.n_embed = Len(up.rows_to_insert)
          /\ \A p \in 1..Len(pdf_file.pages) :
                Len(RowsOfPage(p)) = Len(PageChunks(p))
    /\ up.failed \in {"read", "extract", "embed"} =>
          /\ up.pc = "returned"
          /\ up.result = Return(<<None>>)
          /\ up.printed # <<>>
          /\ up.n_insert = 0
          /\ store = up.rows_before
    /\ (up.runs > 0 /\ up.n_insert = 0) => store = up.rows_before

\* An embedding call failed after a row had been built: the row is dropped.
C10_Witness ==
    /\ up.failed = "embed"
    /\ up.rows_to_insert # <<>>
    /\ up.pc = "returned"

====
